---- MODULE Spec2Model ----
(***************************************************************************)
(* Model of the K3 dashboard (src/k3-app-gem.py): the region classifier    *)
(* map_wilayah_indonesia, the pandas aggregations of analyze_k3_data and  *)
(* of the chart builders, the model selection get_available_model, and    *)
(* the Streamlit script body that is re-run on every user interaction.    *)
(***************************************************************************)
EXTENDS Integers, Sequences, FiniteSets, TLC

VARIABLES
    distrik,        \* argument of map_wilayah_indonesia
    wilayah,        \* its return value ("-" before the call)
    df,             \* the loaded table: a sequence of rows
    agg,            \* the aggregates computed from df
    listing,        \* outcome of genai.list_models()
    model_name,     \* return value of get_available_model
    uploaded_file,  \* st.file_uploader's value
    page,           \* st.radio's value
    event,          \* the interaction that triggered the last script run
    env,            \* outcomes of the external calls of the last script run
    screen          \* the elements the last script run rendered, in order

vars == <<distrik, wilayah, df, agg, listing, model_name,
          uploaded_file, page, event, env, screen>>

----------------------------------------------------------------------------
(* Cells of a table: a string, or pandas' missing value.                   *)

NaN == [na |-> TRUE]
Str(s) == [na |-> FALSE, s |-> s]
isna(v) == v.na

----------------------------------------------------------------------------
(* str.upper() and the substring test `x in d`.                            *)

LowerLetters == "abcdefghijklmnopqrstuvwxyz"
UpperLetters == "ABCDEFGHIJKLMNOPQRSTUVWXYZ"

UpperChar(c) ==
    IF \E i \in 1..Len(LowerLetters) : SubSeq(LowerLetters, i, i) = c
    THEN LET i == CHOOSE j \in 1..Len(LowerLetters) : SubSeq(LowerLetters, j, j) = c
         IN  SubSeq(UpperLetters, i, i)
    ELSE c

RECURSIVE upper(_)
upper(s) ==
    IF Len(s) = 0 THEN s
    ELSE UpperChar(SubSeq(s, 1, 1)) \o upper(SubSeq(s, 2, Len(s)))

\* Python's `x in d` for strings
Contains(x, d) ==
    \E i \in 1..(Len(d) - Len(x) + 1) : SubSeq(d, i, i + Len(x) - 1) = x

\* any(x in d for x in keys)
any(keys, d) == \E x \in keys : Contains(x, d)

----------------------------------------------------------------------------
(* The keyword lists of map_wilayah_indonesia.                             *)

JawaKeys == {"GRESIK", "PAITON", "MUARA", "CIRATA", "PRIOK", "INDRAMAYU",
             "JAWA", "PACITAN", "REMBANG", "ADIPALA"}
SulawesiKeys == {"BAKARU", "PUNAGAYA", "MINAHASA", "SULAWESI", "MAMUJU",
                 "KOLAKA", "BARRU", "KENDARI"}
KalimantanKeys == {"BARITO", "ASAM", "KALIMANTAN", "BANJAR", "KETAPANG",
                   "SAMPIT", "SINTANG"}
SumateraKeys == {"BELAWAN", "SEBALANG", "SUMATERA", "TELUK SIRIH",
                 "PANGKALAN SUSU", "RIAU"}
NusaTenggaraKeys == {"BOLOK", "KUPANG", "SUMBAWA", "LOMBOK", "NTB", "NTT"}
MalukuPapuaKeys == {"PAPUA", "MALUKU", "AMBON", "JAYAPURA"}

\* The chain with the Sulawesi test before the Jawa test.
map_wilayah_sulawesi_first(x) ==
    IF isna(x) THEN "Lainnya"
    ELSE LET d == upper(x.s) IN
         IF any(SulawesiKeys, d) THEN "Sulawesi"
         ELSE IF any(JawaKeys, d) THEN "Jawa"
         ELSE IF any(KalimantanKeys, d) THEN "Kalimantan"
         ELSE IF any(SumateraKeys, d) THEN "Sumatera"
         ELSE IF any(NusaTenggaraKeys, d) THEN "Nusa Tenggara"
         ELSE IF any(MalukuPapuaKeys, d) THEN "Maluku & Papua"
         ELSE "Lainnya"

\* The chain without its last branch.
map_wilayah_without_last(x) ==
    IF isna(x) THEN "Lainnya"
    ELSE LET d == upper(x.s) IN
         IF any(JawaKeys, d) THEN "Jawa"
         ELSE IF any(SulawesiKeys, d) THEN "Sulawesi"
         ELSE IF any(KalimantanKeys, d) THEN "Kalimantan"
         ELSE IF any(SumateraKeys, d) THEN "Sumatera"
         ELSE IF any(NusaTenggaraKeys, d) THEN "Nusa Tenggara"
         ELSE "Lainnya"

\* The chain on the name as given, without upper().
map_wilayah_case_sensitive(x) ==
    IF isna(x) THEN "Lainnya"
    ELSE LET d == x.s IN
         IF any(JawaKeys, d) THEN "Jawa"
         ELSE IF any(SulawesiKeys, d) THEN "Sulawesi"
         ELSE IF any(KalimantanKeys, d) THEN "Kalimantan"
         ELSE IF any(SumateraKeys, d) THEN "Sumatera"
         ELSE IF any(NusaTenggaraKeys, d) THEN "Nusa Tenggara"
         ELSE IF any(MalukuPapuaKeys, d) THEN "Maluku & Papua"
         ELSE "Lainnya"

\* def map_wilayah_indonesia(distrik)
map_wilayah_indonesia(x) ==
    IF isna(x) THEN "Lainnya"
    ELSE LET d == upper(x.s) IN
         IF any(JawaKeys, d) THEN "Jawa"
         ELSE IF any(SulawesiKeys, d) THEN "Sulawesi"
         ELSE IF any(KalimantanKeys, d) THEN "Kalimantan"
         ELSE IF any(SumateraKeys, d) THEN "Sumatera"
         ELSE IF any(NusaTenggaraKeys, d) THEN "Nusa Tenggara"
         ELSE IF any(MalukuPapuaKeys, d) THEN "Maluku & Papua"
         ELSE "Lainnya"

----------------------------------------------------------------------------
(* The pandas operations of the aggregations.  A table is a sequence of    *)
(* rows; a row is a record of cells.                                       *)

\* df['Wilayah'] = df['temuan_nama_distrik'].apply(map_wilayah_indonesia)
apply_wilayah(d) ==
    [i \in DOMAIN d |->
        [temuan_nama_distrik |-> d[i].temuan_nama_distrik,
         temuan_kategori |-> d[i].temuan_kategori,
         judul |-> d[i].judul,
         Wilayah |-> Str(map_wilayah_indonesia(d[i].temuan_nama_distrik))]]

\* d.groupby(cols).size(): the rows with a missing key are dropped
\* (dropna=True); one count per observed key.
groupby_size(d, cols) ==
    LET kept == {i \in DOMAIN d : \A c \in cols : ~isna(d[i][c])}
        key(i) == [c \in cols |-> d[i][c].s]
        groups == {key(i) : i \in kept}
    IN  [g \in groups |-> Cardinality({i \in kept : key(i) = g})]

\* d[col].value_counts(): missing values are not counted (dropna=True).
value_counts(d, col) ==
    LET kept == {i \in DOMAIN d : ~isna(d[i][col])}
        vals == {d[i][col].s : i \in kept}
    IN  [v \in vals |-> Cardinality({i \in kept : d[i][col].s = v})]

\* The order of Python strings, on the characters the model uses.
CharOrder == " ABCDEFGHIJKLMNOPQRSTUVWXYZabcdefghijklmnopqrstuvwxyz"
Rank(c) == CHOOSE i \in 1..Len(CharOrder) : SubSeq(CharOrder, i, i) = c

RECURSIVE StrLess(_, _)
StrLess(a, b) ==
    IF Len(b) = 0 THEN FALSE
    ELSE IF Len(a) = 0 THEN TRUE
    ELSE LET x == Rank(SubSeq(a, 1, 1))
             y == Rank(SubSeq(b, 1, 1))
         IN  IF x # y THEN x < y
             ELSE StrLess(SubSeq(a, 2, Len(a)), SubSeq(b, 2, Len(b)))

\* The group keys in sorted order (groupby's sort=True).
RECURSIVE sorted_keys(_)
sorted_keys(S) ==
    IF S = {} THEN <<>>
    ELSE LET m == CHOOSE x \in S : \A y \in S \ {x} : StrLess(x, y)
         IN  <<m>> \o sorted_keys(S \ {m})

\* The values of one group in any order, counts ignored.
RECURSIVE count_orders_unsorted(_, _)
count_orders_unsorted(S, cnt) ==
    IF S = {} THEN {<<>>}
    ELSE UNION {{<<x>> \o o : o \in count_orders_unsorted(S \ {x}, cnt)} : x \in S}

\* The orders value_counts may give the values of one group: counts
\* descending, values of equal count in any order.
RECURSIVE count_orders(_, _)
count_orders(S, cnt) ==
    IF S = {} THEN {<<>>}
    ELSE UNION {{<<x>> \o o : o \in count_orders(S \ {x}, cnt)} :
                    x \in {y \in S : \A z \in S : cnt[y] >= cnt[z]}}

\* d.groupby('temuan_kategori')['judul'].value_counts(): per category, in
\* key order, the titles with their counts; the results it may give.
RECURSIVE concat_groups(_, _)
concat_groups(keys, d) ==
    IF keys = <<>> THEN {<<>>}
    ELSE LET k == Head(keys)
             g == SelectSeq(d, LAMBDA r : ~isna(r.temuan_kategori)
                                          /\ r.temuan_kategori.s = k)
             cnt == value_counts(g, "judul")
         IN  {[i \in 1..Len(o) |-> [temuan_kategori |-> k, judul |-> o[i],
                                    count |-> cnt[o[i]]]] \o rest :
                 o \in count_orders(DOMAIN cnt, cnt),
                 rest \in concat_groups(Tail(keys), d)}

groupby_value_counts(d) ==
    concat_groups(sorted_keys(DOMAIN value_counts(d, "temuan_kategori")), d)

\* s.groupby(level=0).head(n): the first n rows of each category, in the
\* order of s.
RECURSIVE groupby_head(_, _)
groupby_head(s, n) ==
    IF s = <<>> THEN <<>>
    ELSE LET init == SubSeq(s, 1, Len(s) - 1)
             last == s[Len(s)]
             before == {i \in DOMAIN init :
                           init[i].temuan_kategori = last.temuan_kategori}
         IN  IF Cardinality(before) < n
             THEN Append(groupby_head(init, n), last)
             ELSE groupby_head(init, n)

\* The number of causes kept per category.
TopN == 3

\* analyze_k3_data: the values top_causes may take.
top_causes(d) == {groupby_head(s, TopN) : s \in groupby_value_counts(d)}

\* analyze_k3_data / Summary Table tab
summary_counts(d) == groupby_size(d, {"Wilayah", "temuan_kategori"})

\* value_counts(dropna=False): the missing value is counted as a value.
kategori_dist_keepna(d) ==
    LET shown(i) == IF isna(d[i].temuan_kategori) THEN "nan"
                    ELSE d[i].temuan_kategori.s
    IN  [v \in {shown(i) : i \in DOMAIN d} |->
            Cardinality({i \in DOMAIN d : shown(i) = v})]

\* create_kategori_pie_chart / Distribution tab
kategori_dist(d) == value_counts(d, "temuan_kategori")

----------------------------------------------------------------------------
(* get_available_model.  A listing is the outcome of genai.list_models():  *)
(* an exception, or the models with their supported generation methods.    *)

None == [none |-> TRUE]
NotAsked == [asked |-> FALSE]
NotCalled == [called |-> FALSE]
ListingError == [asked |-> TRUE, ok |-> FALSE]
ListingOf(ms) == [asked |-> TRUE, ok |-> TRUE, models |-> ms]

priority == <<"models/gemini-1.5-flash", "models/gemini-1.5-pro", "models/gemini-pro">>

\* [m.name for m in genai.list_models()
\*         if 'generateContent' in m.supported_generation_methods]
usable_models(l) ==
    LET kept == SelectSeq(l.models,
                    LAMBDA m : "generateContent" \in m.supported_generation_methods)
    IN  [i \in 1..Len(kept) |-> kept[i].name]

get_available_model(l) ==
    IF ~l.ok THEN Str("gemini-1.5-flash")
    ELSE LET models == usable_models(l)
             found == {i \in 1..Len(priority) :
                          \E j \in 1..Len(models) : models[j] = priority[i]}
         IN  IF found # {}
             THEN Str(priority[CHOOSE i \in found : \A j \in found : i <= j])
             ELSE IF models # <<>> THEN Str(models[1]) ELSE None

----------------------------------------------------------------------------
(* Specification of the classifier: the facility name is drawn from the    *)
(* missing value and from the concatenations of at most MaxParts           *)
(* fragments; Classify applies map_wilayah_indonesia to it.                *)

MaxParts == 2

Fragments ==
    JawaKeys \cup SulawesiKeys \cup KalimantanKeys \cup SumateraKeys
        \cup NusaTenggaraKeys \cup MalukuPapuaKeys
        \cup {"paiton", "Bakaru", "Sampit", "belawan", "kuPang", "ambon",
              "PLTU ", " unit 3", "N", "TB", "JA", "WA"}

RECURSIVE Join(_)
Join(parts) ==
    IF parts = <<>> THEN "" ELSE Head(parts) \o Join(Tail(parts))

\* The fragments that follow the first one.
MoreFragments ==
    {"GRESIK", "JAWA", "BAKARU", "ASAM", "SINTANG", "RIAU", "TELUK SIRIH",
     "NTB", "LOMBOK", "AMBON", "jayapura", "Kendari", " unit 3", "TB"}

PartLists ==
    {<<>>} \cup
    {<<f>> \o m : f \in Fragments,
                  m \in UNION {[1..n -> MoreFragments] : n \in 0..(MaxParts - 1)}}

Names == {NaN} \cup {Str(Join(p)) : p \in PartLists}

\* The value of agg before the aggregation has run.
NoAgg == [total |-> -1]

\* The values of the script's variables where the script does not run.
NoApp ==
    /\ uploaded_file = [uploaded |-> FALSE]
    /\ page = "-"
    /\ event = "-"
    /\ env = [chart_fails |-> {}, listing |-> NotAsked,
              listing_again |-> NotAsked, generate |-> "-"]
    /\ screen = <<>>

InitClassify ==
    /\ distrik \in Names
    /\ wilayah = "-"
    /\ df = <<>>
    /\ agg = NoAgg
    /\ listing = NotAsked
    /\ model_name = NotCalled
    /\ NoApp

Classify ==
    /\ wilayah = "-"
    /\ wilayah' = map_wilayah_indonesia(distrik)
    /\ UNCHANGED <<distrik, df, agg, listing, model_name,
                   uploaded_file, page, event, env, screen>>

NextClassify == Classify

SpecClassify == InitClassify /\ [][NextClassify]_vars

----------------------------------------------------------------------------
(* The regions in the order of the if/elif chain, and the regions whose    *)
(* keyword list has a keyword inside the uppercased name.                  *)

RegionOrder == <<"Jawa", "Sulawesi", "Kalimantan", "Sumatera", "Nusa Tenggara",
              "Maluku & Papua">>

KeysOf(r) ==
    CASE r = "Jawa" -> JawaKeys
      [] r = "Sulawesi" -> SulawesiKeys
      [] r = "Kalimantan" -> KalimantanKeys
      [] r = "Sumatera" -> SumateraKeys
      [] r = "Nusa Tenggara" -> NusaTenggaraKeys
      [] r = "Maluku & Papua" -> MalukuPapuaKeys

Matched(x) ==
    IF isna(x) THEN {}
    ELSE LET d == upper(x.s)
         IN  {i \in 1..Len(RegionOrder) : any(KeysOf(RegionOrder[i]), d)}

RegionLabels == {RegionOrder[i] : i \in 1..Len(RegionOrder)} \cup {"Lainnya"}

StartsWithKeyOf(x, r) ==
    /\ ~isna(x)
    /\ \E k \in KeysOf(r) : Len(x.s) >= Len(k) /\ SubSeq(x.s, 1, Len(k)) = k

\* C1: a name with keywords of two or more regions is given the matching
\* region that comes first in the order Jawa, Sulawesi, Kalimantan,
\* Sumatera, Nusa Tenggara, Maluku & Papua, wherever the keywords occur.
C1_PriorityOrder ==
    (wilayah # "-" /\ Cardinality(Matched(distrik)) >= 2) =>
        /\ \E i \in Matched(distrik) : wilayah = RegionOrder[i]
        /\ \A i \in Matched(distrik) :
              wilayah = RegionOrder[i] => \A j \in Matched(distrik) : i <= j

\* A name that starts with a Maluku & Papua keyword, also holds a Jawa
\* keyword, and has been classified.
C1_Witness ==
    /\ wilayah = "Jawa"
    /\ StartsWithKeyOf(distrik, "Maluku & Papua")
    /\ Cardinality(Matched(distrik)) >= 2

\* C2: the result is 'Lainnya' exactly for the missing name and for the
\* names in which no keyword of any region occurs after uppercasing; the
\* result is always one of the seven labels.
C2_DefaultLabel ==
    wilayah # "-" =>
        /\ wilayah \in RegionLabels
        /\ (wilayah = "Lainnya") <=> (isna(distrik) \/ Matched(distrik) = {})

\* A non-missing, non-empty name without any keyword has been classified.
C2_Witness ==
    /\ wilayah = "Lainnya"
    /\ ~isna(distrik)
    /\ Len(distrik.s) > 0

----------------------------------------------------------------------------
(* Specification of the aggregations: the table is drawn from two bounded  *)
(* families (rows differing in facility and category, at most MaxRows of   *)
(* them; rows differing in category and title, at most MaxTitleRows of     *)
(* them); Aggregate computes the tables from it.  No aggregate depends on  *)
(* the order of the rows except through the order of equal counts, which   *)
(* is left open above, so a table is drawn with its rows in one order.     *)

MaxRows == 3
MaxTitleRows == 5

Facilities == <<Str("PLTU PAITON"), Str("PLTU BAKARU"), NaN>>
Categories == <<Str("Unsafe Action"), Str("Unsafe Condition"), NaN>>
Titles == <<Str("No helmet"), Str("Wet floor"), Str("No gloves"),
            Str("Open panel"), NaN>>

RegionRows ==
    [n \in 1..18 |->
        [temuan_nama_distrik |-> Facilities[((n - 1) \div 6) + 1],
         temuan_kategori |-> Categories[(((n - 1) \div 2) % 3) + 1],
         judul |-> Titles[((n - 1) % 2) + 1]]]

TitleRows ==
    [n \in 1..10 |->
        [temuan_nama_distrik |-> Facilities[1],
         temuan_kategori |-> Categories[((n - 1) \div 5) + 1],
         judul |-> Titles[((n - 1) % 5) + 1]]]

\* The non-decreasing index sequences of length n over lo..hi.
RECURSIVE NonDecreasing(_, _, _)
NonDecreasing(n, lo, hi) ==
    IF n = 0 THEN {<<>>}
    ELSE UNION {{<<x>> \o t : t \in NonDecreasing(n - 1, x, hi)} : x \in lo..hi}

TablesOf(rows, max) ==
    {[i \in DOMAIN ix |-> rows[ix[i]]] :
        ix \in UNION {NonDecreasing(n, 1, Len(rows)) : n \in 0..max}}

Tables == TablesOf(RegionRows, MaxRows) \cup TablesOf(TitleRows, MaxTitleRows)

Aggregated == agg.total >= 0

InitAggregate ==
    /\ df \in Tables
    /\ agg = NoAgg
    /\ distrik = NaN
    /\ wilayah = "-"
    /\ listing = NotAsked
    /\ model_name = NotCalled
    /\ NoApp

Aggregate ==
    /\ ~Aggregated
    /\ df' = apply_wilayah(df)
    /\ \E tc \in top_causes(df') :
          agg' = [total |-> Len(df'),
                  summary_counts |-> summary_counts(df'),
                  by_category |-> kategori_dist(df'),
                  top_causes |-> tc]
    /\ UNCHANGED <<distrik, wilayah, listing, model_name,
                   uploaded_file, page, event, env, screen>>

NextAggregate == Aggregate

SpecAggregate == InitAggregate /\ [][NextAggregate]_vars

RECURSIVE SumOver(_, _)
SumOver(f, S) ==
    IF S = {} THEN 0
    ELSE LET x == CHOOSE y \in S : TRUE IN f[x] + SumOver(f, S \ {x})

\* C4: for a non-empty table, the counts of the region-by-category table
\* add up to the number of rows, also when a row has no category.
C4_SumIsTotal ==
    (Aggregated /\ agg.total > 0) =>
        SumOver(agg.summary_counts, DOMAIN agg.summary_counts) = agg.total

\* C5: the per-category counts are the sums over the regions of the
\* region-by-category counts, and both tables have the same categories.
C5_CategoryIsColumnSum ==
    Aggregated =>
        /\ DOMAIN agg.by_category =
              {g.temuan_kategori : g \in DOMAIN agg.summary_counts}
        /\ \A k \in DOMAIN agg.by_category :
              agg.by_category[k] =
                  SumOver(agg.summary_counts,
                          {g \in DOMAIN agg.summary_counts : g.temuan_kategori = k})

\* Two regions share a category, and a row without a category was loaded.
C5_Witness ==
    /\ Aggregated
    /\ \E i \in DOMAIN df : isna(df[i].temuan_kategori)
    /\ \E g, h \in DOMAIN agg.summary_counts :
          g.temuan_kategori = h.temuan_kategori /\ g.Wilayah # h.Wilayah

\* The number of rows of the table with category k and title t.
Occurrences(k, t) ==
    Cardinality({i \in DOMAIN df :
        /\ ~isna(df[i].temuan_kategori) /\ df[i].temuan_kategori.s = k
        /\ ~isna(df[i].judul) /\ df[i].judul.s = t})

TitlesOf(k) ==
    {df[i].judul.s : i \in {j \in DOMAIN df :
        /\ ~isna(df[j].temuan_kategori) /\ df[j].temuan_kategori.s = k
        /\ ~isna(df[j].judul)}}

TopRows(k) == {i \in DOMAIN agg.top_causes : agg.top_causes[i].temuan_kategori = k}

\* C6: for every category, top_causes holds at most 3 titles with their
\* counts (all of them when the category has fewer), no title left out
\* has a higher count than one kept, and the kept ones are listed with
\* counts descending.
C6_TopCauses ==
    Aggregated =>
        \A k \in DOMAIN agg.by_category :
            /\ Cardinality(TopRows(k)) <= 3
            /\ Cardinality(TopRows(k)) >= 3 \/ Cardinality(TopRows(k)) = Cardinality(TitlesOf(k))
            /\ \A i \in TopRows(k) :
                  /\ agg.top_causes[i].judul \in TitlesOf(k)
                  /\ agg.top_causes[i].count = Occurrences(k, agg.top_causes[i].judul)
            /\ \A i, j \in TopRows(k) :
                  /\ i < j => agg.top_causes[i].count >= agg.top_causes[j].count
                  /\ i # j => agg.top_causes[i].judul # agg.top_causes[j].judul
            /\ \A t \in TitlesOf(k) :
                  (\A i \in TopRows(k) : agg.top_causes[i].judul # t) =>
                      \A i \in TopRows(k) : Occurrences(k, t) <= agg.top_causes[i].count

\* A category with four titles, one of them more frequent than the others:
\* one title is left out.
C6_Witness ==
    /\ Aggregated
    /\ \E k \in DOMAIN agg.by_category :
          /\ Cardinality(TitlesOf(k)) = 4
          /\ Cardinality(TopRows(k)) = 3
          /\ \E i, j \in TopRows(k) :
                agg.top_causes[i].count > agg.top_causes[j].count

----------------------------------------------------------------------------
(* Specification of the model selection: the listing is drawn from the     *)
(* failure and from the lists of at most MaxModels models; SelectModel     *)
(* applies get_available_model to it.                                      *)

MaxModels == 2

ModelNames == {"models/gemini-1.5-flash", "models/gemini-1.5-pro",
               "models/gemini-pro", "models/gemini-2.0-flash",
               "models/embedding-001"}

RemoteModels ==
    [name : ModelNames,
     supported_generation_methods : {{"generateContent", "countTokens"},
                                     {"embedContent"}}]

Listings ==
    {ListingError} \cup
    {ListingOf(ms) : ms \in UNION {[1..n -> RemoteModels] : n \in 0..MaxModels}}

InitModel ==
    /\ listing \in Listings
    /\ model_name = NotCalled
    /\ distrik = NaN
    /\ wilayah = "-"
    /\ df = <<>>
    /\ agg = NoAgg
    /\ NoApp

SelectModel ==
    /\ model_name = NotCalled
    /\ model_name' = get_available_model(listing)
    /\ UNCHANGED <<distrik, wilayah, df, agg, listing,
                   uploaded_file, page, event, env, screen>>

NextModel == SelectModel

SpecModel == InitModel /\ [][NextModel]_vars

\* The preferred identifiers the listing offers for generation.
Offered ==
    IF listing.ok
    THEN {i \in 1..Len(priority) :
             \E j \in DOMAIN listing.models :
                 /\ listing.models[j].name = priority[i]
                 /\ "generateContent" \in listing.models[j].supported_generation_methods}
    ELSE {}

NothingUsable ==
    \/ ~listing.ok
    \/ \A j \in DOMAIN listing.models :
          "generateContent" \notin listing.models[j].supported_generation_methods

\* C7: the selection returns the first preferred identifier that the
\* listing offers for generation; when the listing fails or offers no
\* generation model it returns the default identifier; it never returns None.
C7_ModelSelection ==
    model_name # NotCalled =>
        /\ \A i \in Offered :
              (\A j \in Offered : i <= j) => model_name = Str(priority[i])
        /\ NothingUsable => model_name = Str("gemini-1.5-flash")
        /\ model_name # None

----------------------------------------------------------------------------
(* The Streamlit script.  Every interaction (an upload, a page selection,  *)
(* a click on the analysis button) runs the script body from the top; the  *)
(* elements it renders, in order, are the screen.  A statement that raises *)
(* inside the try block ends the block: what was rendered before stays,    *)
(* and the handler renders its error and its hint.                         *)

Required == {"temuan_nama_distrik", "temuan_kategori", "judul"}
Pages == {"Dashboard", "AI Insights", "Detailed Analytics"}
Charts == <<"kategori_pie", "wilayah_bar", "kategori_wilayah_heatmap",
            "kategori_wilayah_stacked_bar", "distrik_histogram">>
ChartSet == {Charts[i] : i \in 1..Len(Charts)}

NoFile == [uploaded |-> FALSE]

\* pd.read_csv(...) if 'csv' in uploaded_file.name else pd.read_excel(...):
\* the reader chosen by the name returns a table when the content is a
\* well-formed file of the reader's format, and raises otherwise.
read_ok(f) ==
    /\ f.wellformed
    /\ f.format = (IF f.name_has_csv THEN "csv" ELSE "xlsx")

Elem(kind, id) == [kind |-> kind, id |-> id]
\* A statement: the elements it renders, or an exception.
Renders(elems) == [raises |-> FALSE, out |-> elems]
Raises == [raises |-> TRUE, out |-> <<>>]
Needs(cols, f, elems) == IF cols \subseteq f.columns THEN Renders(elems) ELSE Raises

\* The statements run in order up to the first that raises.
RECURSIVE try_block(_)
try_block(stmts) ==
    IF stmts = <<>> THEN [raised |-> FALSE, out |-> <<>>]
    ELSE IF Head(stmts).raises THEN [raised |-> TRUE, out |-> <<>>]
    ELSE LET rest == try_block(Tail(stmts))
         IN  [raised |-> rest.raised, out |-> Head(stmts).out \o rest.out]

\* st.plotly_chart(create_..._chart(df)): the column reads of the builder,
\* then the plotting library, which may raise.
plotly_chart(c, cols, f, o) ==
    IF c \in o.chart_fails THEN Raises
    ELSE Needs(cols, f, <<Elem("chart", c)>>)

load_and_metrics(f) ==
    <<IF read_ok(f) THEN Renders(<<>>) ELSE Raises,
      Needs({"temuan_nama_distrik"}, f, <<>>),
      Renders(<<Elem("metric", "Total Temuan"), Elem("metric", "Jumlah Wilayah")>>),
      Needs({"temuan_nama_distrik"}, f, <<Elem("metric", "Jumlah Unit")>>),
      Needs({"temuan_kategori"}, f, <<Elem("metric", "Kategori")>>)>>

dashboard_page(f, o) ==
    <<Renders(<<Elem("header", "Dasbor Analytics")>>),
      plotly_chart(Charts[1], {"temuan_kategori"}, f, o),
      plotly_chart(Charts[2], {}, f, o),
      plotly_chart(Charts[3], {"temuan_kategori"}, f, o),
      plotly_chart(Charts[4], {"temuan_kategori"}, f, o),
      plotly_chart(Charts[5], {"temuan_nama_distrik"}, f, o)>>

\* analyze_k3_data: the aggregations, the second model selection, the
\* construction of the model and the generation call.
analyze_k3_data(f, o) ==
    <<Needs({"temuan_nama_distrik"}, f, <<>>),
      Needs({"temuan_kategori"}, f, <<>>),
      Needs({"temuan_kategori", "judul"}, f, <<>>),
      IF get_available_model(o.listing_again) = None THEN Raises ELSE Renders(<<>>),
      IF o.generate = "error" THEN Raises ELSE Renders(<<>>)>>

ai_insights_page(f, clicked, o) ==
    <<Renders(<<Elem("header", "Analisis AI"),
                [kind |-> "info", id |-> "model",
                 model_name |-> get_available_model(o.listing)],
                Elem("button", "analyze_btn")>>)>>
    \o (IF clicked
        THEN analyze_k3_data(f, o)
                 \o <<Renders(<<Elem("markdown", "Insight Strategis"),
                                Elem("markdown", "insight")>>)>>
        ELSE <<>>)

detailed_analytics_page(f) ==
    <<Renders(<<Elem("header", "Analytics Terperinci")>>),
      Needs(Required, f, <<Elem("table", "Preview Data")>>),
      Needs({"temuan_kategori"}, f, <<Elem("table", "Ringkasan Data")>>),
      Needs({"temuan_kategori"}, f, <<Elem("table", "Distribusi per Kategori")>>),
      Renders(<<Elem("table", "Distribusi per Wilayah")>>)>>

page_body(f, pg, clicked, o) ==
    CASE pg = "Dashboard" -> dashboard_page(f, o)
      [] pg = "AI Insights" -> ai_insights_page(f, clicked, o)
      [] pg = "Detailed Analytics" -> detailed_analytics_page(f)

except_handler ==
    <<Elem("error", "Error saat membaca file"),
      Elem("info", "Pastikan file Excel memiliki header pada baris ke-4")>>

\* One run of the script body.
run_script(f, pg, clicked, o) ==
    IF f = NoFile THEN <<Elem("info", "Silakan upload file K3")>>
    ELSE LET r == try_block(load_and_metrics(f) \o page_body(f, pg, clicked, o))
         IN  IF r.raised THEN r.out \o except_handler ELSE r.out

----------------------------------------------------------------------------
(* Specification of the application: the user uploads or removes a file,   *)
(* selects a page, clicks the analysis button; each interaction runs the   *)
(* script with the outcomes of the external calls the page makes (the      *)
(* plotting library per chart, the model listing, the generation call).    *)

Files ==
    {f \in [uploaded : {TRUE}, name_has_csv : BOOLEAN, format : {"csv", "xlsx"},
            wellformed : BOOLEAN, columns : SUBSET Required] :
        ~read_ok(f) => f.columns = {}}

GenerationModel ==
    [name |-> "models/gemini-1.5-flash",
     supported_generation_methods |-> {"generateContent", "countTokens"}]
OtherModel ==
    [name |-> "models/gemini-2.0-flash",
     supported_generation_methods |-> {"generateContent", "countTokens"}]

AppListings ==
    {ListingError, ListingOf(<<>>), ListingOf(<<GenerationModel>>),
     ListingOf(<<OtherModel>>)}

NoCalls ==
    [chart_fails |-> {}, listing |-> NotAsked, listing_again |-> NotAsked,
     generate |-> "-"]

\* The outcomes of the external calls a run of page pg can make.
Outcomes(pg, clicked) ==
    CASE pg = "Dashboard" ->
            {[NoCalls EXCEPT !.chart_fails = c] : c \in SUBSET ChartSet}
      [] pg = "AI Insights" /\ ~clicked ->
            {[NoCalls EXCEPT !.listing = l] : l \in AppListings}
      [] pg = "AI Insights" /\ clicked ->
            {[NoCalls EXCEPT !.listing = l, !.listing_again = m, !.generate = g] :
                l \in AppListings, m \in AppListings, g \in {"ok", "error"}}
      [] OTHER -> {NoCalls}

Rerun(f, pg, ev) ==
    /\ uploaded_file' = f
    /\ page' = pg
    /\ event' = ev
    /\ \E o \in Outcomes(pg, ev = "click") :
          /\ env' = o
          /\ screen' = run_script(f, pg, ev = "click", o)
    /\ UNCHANGED <<distrik, wilayah, df, agg, listing, model_name>>

InitApp ==
    /\ uploaded_file = NoFile
    /\ page = "Dashboard"
    /\ event = "start"
    /\ env = NoCalls
    /\ screen = run_script(NoFile, "Dashboard", FALSE, NoCalls)
    /\ distrik = NaN
    /\ wilayah = "-"
    /\ df = <<>>
    /\ agg = NoAgg
    /\ listing = NotAsked
    /\ model_name = NotCalled

Upload(f) ==
    /\ f \in Files
    /\ Rerun(f, page, "upload")

RemoveFile ==
    /\ uploaded_file # NoFile
    /\ Rerun(NoFile, page, "remove")

SelectPage(pg) ==
    /\ pg # page
    /\ Rerun(uploaded_file, pg, "page")

ClickAnalyze ==
    /\ \E i \in DOMAIN screen : screen[i] = Elem("button", "analyze_btn")
    /\ Rerun(uploaded_file, page, "click")

NextApp ==
    \/ \E f \in Files : Upload(f)
    \/ RemoveFile
    \/ \E pg \in Pages : SelectPage(pg)
    \/ ClickAnalyze

SpecApp == InitApp /\ [][NextApp]_vars

Shown(e) == \E i \in DOMAIN screen : screen[i] = e
ShownKind(k) == \E i \in DOMAIN screen : screen[i].kind = k

MetricsShown ==
    /\ Shown(Elem("metric", "Total Temuan"))
    /\ Shown(Elem("metric", "Jumlah Wilayah"))
    /\ Shown(Elem("metric", "Jumlah Unit"))
    /\ Shown(Elem("metric", "Kategori"))

\* The last run was a click on the analysis button whose generation call
\* was made and failed.
GenerationFailed ==
    /\ event = "click"
    /\ read_ok(uploaded_file)
    /\ uploaded_file.columns = Required
    /\ get_available_model(env.listing_again) # None
    /\ env.generate = "error"

\* C8: a failed generation call is not reported as an error of reading
\* the file, and the metrics of the run stay on the screen.
C8_NarrationErrorIsolated ==
    GenerationFailed =>
        /\ ~Shown(Elem("error", "Error saat membaca file"))
        /\ ~Shown(Elem("info", "Pastikan file Excel memiliki header pada baris ke-4"))
        /\ MetricsShown

\* C9: a file without one of the required columns ends, on every page,
\* with an error on the screen and no chart.
C9_MissingColumnIsError ==
    (uploaded_file # NoFile /\ read_ok(uploaded_file)
        /\ uploaded_file.columns # Required) =>
        /\ ShownKind("error")
        /\ ~ShownKind("chart")

\* C10: on the Dashboard every chart whose own build and rendering would
\* succeed is on the screen, whichever other chart failed.
C10_ChartsIsolated ==
    (page = "Dashboard" /\ uploaded_file # NoFile /\ read_ok(uploaded_file)
        /\ {"temuan_nama_distrik", "temuan_kategori"} \subseteq uploaded_file.columns) =>
        \A c \in ChartSet \ env.chart_fails : Shown(Elem("chart", c))

====
